---- MODULE Spec2Model ----
(***************************************************************************)
(* Plan limits, quota gate and subscription state machine of the Study_AI  *)
(* backend (backend/api: models.py, plan_limits.py, views.py,              *)
(* admin_views.py, serializers.py).                                        *)
(*                                                                         *)
(* The clock `now` counts ticks since the epoch; a calendar month is       *)
(* MonthLen ticks and timedelta(days=30) is ThirtyDays ticks.  An optional *)
(* value (a nullable column, Python's None) is a sequence of length <= 1.  *)
(***************************************************************************)
EXTENDS Integers, Sequences, FiniteSets, TLC

VARIABLES
    now,         \* timezone.now()
    users,       \* the User table: id -> row
    documents,   \* the Document table: documents[u][t] = rows of user u with uploaded_at = t
    summaries,   \* the Summary table: summaries[u][t] = rows of user u with created_at = t
    flashcards,  \* the Flashcard table: flashcards[u][t] = [doc, nodoc] rows of user u
                 \* with created_at = t, split by document IS NOT NULL / IS NULL
    reqs,        \* request bookkeeping: the requests in flight, slot -> [pc, user, ...],
                 \* or, where uploads and deletions mix, the uploads answered 201
    delivered,   \* webhook events the provider has had applied: <<type, subscription>>
    last         \* the last request handled: [op, user, at, ev, res, was_pro, repeat]

vars == <<now, users, documents, summaries, flashcards, reqs, delivered, last>>

----------------------------------------------------------------------------
(* Bounds of the model *)

MaxNow == 2
MonthLen == 2
ThirtyDays == 2
MaxDocs == 11
NReq == 2

Times == 0..MaxNow

----------------------------------------------------------------------------
(* Optional values *)

None == << >>
Some(x) == <<x>>

----------------------------------------------------------------------------
(* models.py *)

Users == {1, 2}

FirstUser == CHOOSE u \in Users : \A v \in Users : u <= v

PlanTypes == {"free", "pro"}

Statuses == {"active", "cancelled", "past_due", "expired"}

\* The row User.objects.create_user() writes: the column defaults.
NewUser ==
    [plan_type |-> "free", subscription_status |-> "active",
     subscription_start_date |-> None, subscription_end_date |-> None,
     stripe_customer_id |-> None, stripe_subscription_id |-> None]

\* is_pro with the expiry compared by <= : the instant of expiry still entitled.
is_pro_expiry_inclusive(user, t) ==
    IF user.plan_type = "pro" /\ user.subscription_status = "active"
    THEN IF user.subscription_end_date # None
         THEN t <= user.subscription_end_date[1]
         ELSE TRUE
    ELSE FALSE

\* is_pro without the subscription_end_date test.
is_pro_no_expiry(user, t) ==
    user.plan_type = "pro" /\ user.subscription_status = "active"

\* A datetime column is truthy whenever it is not NULL.
is_pro(user, t) ==
    IF user.plan_type = "pro" /\ user.subscription_status = "active"
    THEN IF user.subscription_end_date # None
         THEN t < user.subscription_end_date[1]
         ELSE TRUE
    ELSE FALSE

Unlimited == -1

ProLimits ==
    [documents_per_month |-> Unlimited, summaries_per_month |-> Unlimited,
     flashcards_per_month |-> Unlimited, max_file_size_mb |-> 50,
     ai_generations_per_month |-> Unlimited]

FreeLimits ==
    [documents_per_month |-> 10, summaries_per_month |-> 10,
     flashcards_per_month |-> 50, max_file_size_mb |-> 10,
     ai_generations_per_month |-> 20]

\* get_plan_limits keyed on plan_type alone.
get_plan_limits_by_plan_type(user, t) ==
    IF user.plan_type = "pro" THEN ProLimits ELSE FreeLimits

get_plan_limits(user, t) ==
    IF is_pro(user, t) THEN ProLimits ELSE FreeLimits

----------------------------------------------------------------------------
(* plan_limits.py *)

\* timezone.now().replace(day=1, hour=0, minute=0, second=0, microsecond=0)
\* The window starting at the instant of the check instead of the month's first.
start_of_month_is_now(t) == t

\* The window reaching one month back from the check instead of starting
\* with the calendar month.
start_of_month_rolling(t) == IF t >= MonthLen - 1 THEN t - (MonthLen - 1) ELSE 0

start_of_month(t) == t - (t % MonthLen)

RECURSIVE SumFrom(_, _)
SumFrom(f, t) == IF t > MaxNow THEN 0 ELSE f[t] + SumFrom(f, t + 1)

\* Model.objects.filter(user=user, created_at__gte=start).count()
count_gte(table, u, start) == SumFrom(table[u], start)

\* Flashcard.objects.filter(user=user, created_at__gte=start).count()
flashcards_gte(u, start) ==
    SumFrom([t \in Times |-> flashcards[u][t].doc + flashcards[u][t].nodoc], start)

\* The AI count taking every flashcard, with or without a document.
ai_flashcards_gte_any_card(u, start) ==
    SumFrom([t \in Times |-> flashcards[u][t].doc + flashcards[u][t].nodoc], start)

\* ... .filter(user=user, created_at__gte=start, document__isnull=False).count()
ai_flashcards_gte(u, start) ==
    SumFrom([t \in Times |-> flashcards[u][t].doc], start)

\* limit_result allowing the request that finds nothing remaining.
limit_result_off_by_one(limit, used) ==
    IF limit = Unlimited
    THEN [allowed |-> TRUE, remaining |-> None]
    ELSE IF limit - used >= 0
         THEN [allowed |-> TRUE, remaining |-> Some(limit - used)]
         ELSE [allowed |-> FALSE, remaining |-> Some(0)]

\* The tail every check_*_limit shares: remaining = limit - used.
limit_result(limit, used) ==
    IF limit = Unlimited
    THEN [allowed |-> TRUE, remaining |-> None]
    ELSE IF limit - used > 0
         THEN [allowed |-> TRUE, remaining |-> Some(limit - used)]
         ELSE [allowed |-> FALSE, remaining |-> Some(0)]

check_document_limit(u, t) ==
    limit_result(get_plan_limits(users[u], t).documents_per_month,
                 count_gte(documents, u, start_of_month(t)))

check_summary_limit(u, t) ==
    limit_result(get_plan_limits(users[u], t).summaries_per_month,
                 count_gte(summaries, u, start_of_month(t)))

check_flashcard_limit(u, t) ==
    limit_result(get_plan_limits(users[u], t).flashcards_per_month,
                 flashcards_gte(u, start_of_month(t)))

\* The size check refusing a file of exactly the limit.
check_file_size_limit_exclusive(u, t, file_size_bytes) ==
    file_size_bytes < get_plan_limits(users[u], t).max_file_size_mb * 1024 * 1024

check_file_size_limit(u, t, file_size_bytes) ==
    file_size_bytes <= get_plan_limits(users[u], t).max_file_size_mb * 1024 * 1024

check_ai_generation_limit(u, t) ==
    limit_result(get_plan_limits(users[u], t).ai_generations_per_month,
                 count_gte(summaries, u, start_of_month(t))
                     + ai_flashcards_gte(u, start_of_month(t)))

----------------------------------------------------------------------------
(* serializers.py: UserSerializer.get_plan_limits *)

\* One resource of the usage snapshot:
\* 'remaining': limit - used if limit != -1 else -1
snapshot_entry(limit, used) ==
    [limit |-> limit, used |-> used,
     remaining |-> IF limit # Unlimited THEN limit - used ELSE Unlimited]

\* The plan_limits field of the serialized user.
usage_snapshot(u, t) ==
    LET limits == get_plan_limits(users[u], t)
        documents_count == count_gte(documents, u, start_of_month(t))
        summaries_count == count_gte(summaries, u, start_of_month(t))
        flashcards_count == flashcards_gte(u, start_of_month(t))
    IN  [documents |-> snapshot_entry(limits.documents_per_month, documents_count),
         summaries |-> snapshot_entry(limits.summaries_per_month, summaries_count),
         flashcards |-> snapshot_entry(limits.flashcards_per_month, flashcards_count),
         max_file_size_mb |-> limits.max_file_size_mb,
         ai_generations |->
             snapshot_entry(limits.ai_generations_per_month,
                            summaries_count + ai_flashcards_gte(u, start_of_month(t)))]

----------------------------------------------------------------------------
(* The request log *)

\* op: the handler; user: the row it addressed, if any; at: its timezone.now();
\* ev: the event or arguments; res: its answer; was_pro: is_pro of that row as
\* the handler found it; repeat: the request before it was the same one.
NoRequest ==
    [op |-> "none", user |-> None, at |-> 0, ev |-> None, res |-> None,
     was_pro |-> FALSE, repeat |-> FALSE]

WasPro(u) == u # None /\ is_pro(users[u[1]], now)

Observed(op, u, ev, res) ==
    [op |-> op, user |-> u, at |-> now, ev |-> ev, res |-> res,
     was_pro |-> WasPro(u), repeat |-> FALSE]

Handled(op, u, ev, res) ==
    [op |-> op, user |-> u, at |-> now, ev |-> ev, res |-> res,
     was_pro |-> WasPro(u),
     repeat |-> (last.op = op /\ last.user = u /\ last.ev = ev)]

Event(type, sub, period_end) ==
    [type |-> type, subscription |-> sub, period_end |-> period_end]

\* The arguments of a request that carries a file of `size` bytes.
FileOf(type, size) == [type |-> type, size |-> size]

NoRows == [u \in Users |-> [t \in Times |-> 0]]

NoCards == [u \in Users |-> [t \in Times |-> [doc |-> 0, nodoc |-> 0]]]

NoUploads == [r \in 1..NReq |-> [pc |-> "idle", user |-> None]]

\* django.utils.timezone.now() read by a later request
Tick ==
    /\ now < MaxNow
    /\ now' = now + 1
    /\ UNCHANGED <<users, documents, summaries, flashcards, reqs, delivered, last>>

----------------------------------------------------------------------------
(* The entitlement resolver and the quota gate applied to stored states *)

\* Rows an admin PATCH and an earlier grant can leave behind.
GateUserRows ==
    {[NewUser EXCEPT !.plan_type = p, !.subscription_status = s] :
        p \in PlanTypes, s \in Statuses}
    \cup
    {[NewUser EXCEPT !.plan_type = p, !.subscription_status = s,
                     !.subscription_start_date = Some(0),
                     !.subscription_end_date = Some(e)] :
        p \in PlanTypes, s \in Statuses, e \in 1..MaxNow}

Offsets == {-1, 0, 1}

\* This month's usage of the first user: one resource at its free limit or
\* one off it, the others low.
UsageProfiles ==
    {[d |-> FreeLimits.documents_per_month + k, s |-> 2, fd |-> 3, fn |-> 4] :
        k \in Offsets}
    \cup
    {[d |-> 1, s |-> FreeLimits.summaries_per_month + k, fd |-> 3, fn |-> 4] :
        k \in Offsets}
    \cup
    {[d |-> 1, s |-> 2, fd |-> 3, fn |-> FreeLimits.flashcards_per_month - 3 + k] :
        k \in Offsets}
    \cup
    {[d |-> 1, s |-> 8, fd |-> FreeLimits.ai_generations_per_month - 8 + k, fn |-> 4] :
        k \in Offsets}

FileSizes ==
    {FreeLimits.max_file_size_mb * 1024 * 1024,
     FreeLimits.max_file_size_mb * 1024 * 1024 + 1,
     ProLimits.max_file_size_mb * 1024 * 1024,
     ProLimits.max_file_size_mb * 1024 * 1024 + 1}

InitGate ==
    /\ now \in Times
    /\ \E row \in GateUserRows :
          users = [u \in Users |->
                      IF u = FirstUser THEN row
                      ELSE [NewUser EXCEPT !.plan_type = "pro"]]
    /\ \E p \in UsageProfiles, old \in {1} :
          /\ documents = [u \in Users |-> [t \in Times |->
                IF u = FirstUser
                THEN (IF t = now THEN p.d ELSE 0) + (IF t = 0 THEN old ELSE 0)
                ELSE IF t = 0 THEN 2 ELSE 0]]
          /\ summaries = [u \in Users |-> [t \in Times |->
                IF u = FirstUser
                THEN (IF t = now THEN p.s ELSE 0) + (IF t = 0 THEN old ELSE 0)
                ELSE IF t = 0 THEN 2 ELSE 0]]
          /\ flashcards = [u \in Users |-> [t \in Times |->
                IF u = FirstUser
                THEN [doc |-> (IF t = now THEN p.fd ELSE 0) + (IF t = 0 THEN old ELSE 0),
                      nodoc |-> IF t = now THEN p.fn ELSE 0]
                ELSE [doc |-> IF t = 0 THEN 2 ELSE 0, nodoc |-> IF t = 0 THEN 2 ELSE 0]]]
    /\ reqs = NoUploads
    /\ delivered = {}
    /\ last = NoRequest

\* views.py dashboard_stats: 'is_pro': user.is_pro
EvalIsPro(u) ==
    /\ last' = Observed("is_pro", Some(u), Event("is_pro", "", None), is_pro(users[u], now))
    /\ UNCHANGED <<now, users, documents, summaries, flashcards, reqs, delivered>>

EvalPlanLimits(u) ==
    /\ last' = Observed("get_plan_limits", Some(u), Event("get_plan_limits", "", None), get_plan_limits(users[u], now))
    /\ UNCHANGED <<now, users, documents, summaries, flashcards, reqs, delivered>>

\* The document check taking the slot it found free.
EvalDocumentLimit_reserves(u) ==
    /\ last' = Observed("check_document_limit", Some(u), Event("check_document_limit", "", None), check_document_limit(u, now))
    /\ documents' = IF check_document_limit(u, now).allowed
                    THEN [documents EXCEPT ![u][now] = @ + 1]
                    ELSE documents
    /\ UNCHANGED <<now, users, summaries, flashcards, reqs, delivered>>

EvalDocumentLimit(u) ==
    /\ last' = Observed("check_document_limit", Some(u), Event("check_document_limit", "", None), check_document_limit(u, now))
    /\ UNCHANGED <<now, users, documents, summaries, flashcards, reqs, delivered>>

EvalSummaryLimit(u) ==
    /\ last' = Observed("check_summary_limit", Some(u), Event("check_summary_limit", "", None), check_summary_limit(u, now))
    /\ UNCHANGED <<now, users, documents, summaries, flashcards, reqs, delivered>>

EvalFlashcardLimit(u) ==
    /\ last' = Observed("check_flashcard_limit", Some(u), Event("check_flashcard_limit", "", None), check_flashcard_limit(u, now))
    /\ UNCHANGED <<now, users, documents, summaries, flashcards, reqs, delivered>>

EvalAiGenerationLimit(u) ==
    /\ last' = Observed("check_ai_generation_limit", Some(u),
                        Event("check_ai_generation_limit", "", None),
                       check_ai_generation_limit(u, now))
    /\ UNCHANGED <<now, users, documents, summaries, flashcards, reqs, delivered>>

EvalFileSizeLimit(u, size) ==
    /\ last' = Observed("check_file_size_limit", Some(u),
                        FileOf("check_file_size_limit", size),
                       check_file_size_limit(u, now, size))
    /\ UNCHANGED <<now, users, documents, summaries, flashcards, reqs, delivered>>

\* views.py user_profile, GET: UserSerializer(request.user).data['plan_limits']
EvalUsageSnapshot(u) ==
    /\ last' = Observed("usage_snapshot", Some(u), Event("usage_snapshot", "", None),
                        usage_snapshot(u, now))
    /\ UNCHANGED <<now, users, documents, summaries, flashcards, reqs, delivered>>

NextGate ==
    \/ Tick
    \/ \E u \in Users : EvalUsageSnapshot(u)
    \/ \E u \in Users : EvalIsPro(u)
    \/ \E u \in Users : EvalPlanLimits(u)
    \/ \E u \in Users : EvalDocumentLimit(u)
    \/ \E u \in Users : EvalSummaryLimit(u)
    \/ \E u \in Users : EvalFlashcardLimit(u)
    \/ \E u \in Users : EvalAiGenerationLimit(u)
    \/ \E u \in Users, size \in FileSizes : EvalFileSizeLimit(u, size)

SpecGate == InitGate /\ [][NextGate]_vars

----------------------------------------------------------------------------
(* The billing provider as the handlers see it *)

\* A checkout session and the subscription it pays for, named by the
\* subscription id.
Subscriptions == {"sub_a", "sub_x"}

\* session.metadata['user_id']: the id create_checkout_session stored, as a
\* string; "3" is a user that no longer exists locally.
MetadataUserId ==
    [s \in Subscriptions |->
        CASE s = "sub_a" -> "1" [] OTHER -> "3"]

IdStrings == <<"1", "2", "3">>

\* str(request.user.id)
str(id) == IdStrings[id]

\* int(user_id)
int(text) == CHOOSE id \in DOMAIN IdStrings : IdStrings[id] = text

\* subscription.current_period_end: a Unix time, or absent.
PeriodEnds == {None} \cup {Some(p) : p \in 1..(MaxNow + 1)}

\* Python truth of current_period_end: None and 0 are false.
Truthy(period_end) == period_end # None /\ period_end[1] # 0

\* datetime.fromtimestamp(ts): the instant ts ticks after the epoch, which is
\* how the clock counts.
fromtimestamp(ts) == ts

\* The lookup matching every user that holds any subscription.
UsersBySubscription_any_subscriber(sub) ==
    {u \in Users : users[u].stripe_subscription_id # None}

\* User.objects.get(stripe_subscription_id=sub): the matching ids.
UsersBySubscription(sub) ==
    {u \in Users : users[u].stripe_subscription_id = Some(sub)}

----------------------------------------------------------------------------
(* views.py: stripe_webhook and verify_payment *)

\* An answered request that wrote nothing, and so stamped no time.
Answer(op, u, ev, code) ==
    /\ last' = [Observed(op, u, ev, code) EXCEPT !.at = 0]
    /\ UNCHANGED <<now, users, documents, summaries, flashcards, reqs, delivered>>

\* user.save() of the row a handler changed, and its answer.
Save(op, u, ev, code, row) ==
    /\ users' = [users EXCEPT ![u] = row]
    /\ last' = Handled(op, Some(u), ev, code)
    /\ delivered' = IF op = "webhook"
                    THEN delivered \cup {<<ev.type, ev.subscription>>}
                    ELSE delivered
    /\ UNCHANGED <<now, documents, summaries, flashcards, reqs>>

\* checkout.session.completed with the end date left alone when the period
\* end is present too.
checkout_completed_row_keeps_end(row, sub, period_end, t) ==
    [row EXCEPT !.plan_type = "pro", !.subscription_status = "active",
                !.stripe_subscription_id = Some(sub),
                !.subscription_start_date = Some(t)]

\* views.py 642-648: the fields checkout.session.completed sets.
checkout_completed_row(row, sub, period_end, t) ==
    [row EXCEPT !.plan_type = "pro", !.subscription_status = "active",
                !.stripe_subscription_id = Some(sub),
                !.subscription_start_date = Some(t),
                !.subscription_end_date =
                    IF Truthy(period_end) THEN Some(fromtimestamp(period_end[1])) ELSE @]

\* views.py 565-575: the fields verify_payment sets.
verify_payment_row(row, sub, period_end, t) ==
    [row EXCEPT !.plan_type = "pro", !.subscription_status = "active",
                !.stripe_subscription_id = Some(sub),
                !.subscription_start_date = Some(t),
                !.subscription_end_date =
                    IF Truthy(period_end) THEN Some(fromtimestamp(period_end[1]))
                    ELSE Some(t + ThirtyDays)]

\* subscription deleted that only drops the billing reference.
subscription_deleted_row_only_clears_ref(row) ==
    [row EXCEPT !.stripe_subscription_id = None]

\* subscription deleted that keeps the billing reference.
subscription_deleted_row_keeps_ref(row) ==
    [row EXCEPT !.plan_type = "free", !.subscription_status = "cancelled"]

\* views.py 657-659
subscription_deleted_row(row) ==
    [row EXCEPT !.plan_type = "free", !.subscription_status = "cancelled",
                !.stripe_subscription_id = None]

\* payment failed that forgets to write the status.
payment_failed_row_keeps_status(row) == row

\* payment failed handled like a cancellation of the plan.
payment_failed_row_downgrades(row) ==
    [row EXCEPT !.plan_type = "free", !.subscription_status = "past_due"]

\* views.py 669
payment_failed_row(row) ==
    [row EXCEPT !.subscription_status = "past_due"]

\* A request that was refused or found nothing to do is logged by its type.
Refused(type) == Event(type, "", None)

\* stripe_webhook reading the payload's event before construct_event has
\* accepted it: a deletion the payload names is applied all the same.
WebhookRejected_applies_deletion(type, sub) ==
    IF type = "customer.subscription.deleted" /\ UsersBySubscription(sub) # {}
    THEN \E u \in UsersBySubscription(sub) :
            Save("webhook", u, Event(type, sub, None), 400,
                 subscription_deleted_row(users[u]))
    ELSE Answer("webhook", None, Event(type, sub, None), 400)

\* stripe_webhook when stripe.Webhook.construct_event refuses the payload or
\* the signature: the event type and the subscription the payload names are
\* never read.
WebhookRejected(type, sub) ==
    Answer("webhook", None, Event(type, sub, None), 400)

\* stripe_webhook, event checkout.session.completed.  The StripeError of
\* stripe.Subscription.retrieve is not caught in this branch.
WebhookCheckoutCompleted(sub) ==
    LET type == "checkout.session.completed"
        user_id == MetadataUserId[sub]
    IN  IF int(user_id) \notin Users
        THEN Answer("webhook", None, Refused(type), 200)
        ELSE \/ Answer("webhook", None, Refused(type), 500)
             \/ \E period_end \in PeriodEnds :
                   Save("webhook", int(user_id), Event(type, sub, period_end), 200,
                        checkout_completed_row(users[int(user_id)], sub, period_end, now))

\* stripe_webhook, event customer.subscription.deleted.
WebhookSubscriptionDeleted(sub) ==
    LET type == "customer.subscription.deleted"
        found == UsersBySubscription(sub)
    IN  IF found = {} THEN Answer("webhook", None, Refused(type), 200)
        ELSE IF Cardinality(found) > 1 THEN Answer("webhook", None, Refused(type), 500)
        ELSE \E u \in found :
                Save("webhook", u, Event(type, sub, None), 200,
                     subscription_deleted_row(users[u]))

\* stripe_webhook, event invoice.payment_failed.  The StripeError of
\* stripe.Subscription.retrieve is caught and passed over.
WebhookPaymentFailed(sub) ==
    LET type == "invoice.payment_failed"
        found == UsersBySubscription(sub)
    IN  \/ Answer("webhook", None, Refused(type), 200)
        \/ IF found = {} THEN Answer("webhook", None, Refused(type), 200)
           ELSE IF Cardinality(found) > 1 THEN Answer("webhook", None, Refused(type), 500)
           ELSE \E u \in found :
                   Save("webhook", u, Event(type, sub, None), 200,
                        payment_failed_row(users[u]))

\* verify_payment that does not compare the session's user_id with the caller.
VerifyPayment_no_owner_check(u, sub) ==
    LET type == "verify_payment"
    IN  \/ Answer(type, Some(u), Refused(type), 400)
        \/ \E period_end \in PeriodEnds :
              Save(type, u, Event(type, sub, period_end), 200,
                   verify_payment_row(users[u], sub, period_end, now))

\* verify_payment by user u for the session of subscription sub.
VerifyPayment(u, sub) ==
    LET type == "verify_payment"
    IN  \* stripe.checkout.Session.retrieve raises
        \/ Answer(type, Some(u), Refused(type), 400)
        \/ /\ MetadataUserId[sub] # str(u)
           /\ Answer(type, Some(u), Refused(type), 403)
        \* payment_status is not 'paid', or stripe.Subscription.retrieve raises
        \/ /\ MetadataUserId[sub] = str(u)
           /\ Answer(type, Some(u), Refused(type), 400)
        \/ /\ MetadataUserId[sub] = str(u)
           /\ \E period_end \in PeriodEnds :
                 Save(type, u, Event(type, sub, period_end), 200,
                      verify_payment_row(users[u], sub, period_end, now))

\* customer.id of the customer stripe.Customer.create makes for user u
CustomerId(u) == Some(str(u))

\* create_checkout_session by user u.  A provider call that raises is
\* answered 400 (StripeError); the row saved before it stays saved.
CreateCheckoutSession(u) ==
    LET type == "create_checkout_session"
        ev == Event(type, "", None)
    IN  IF is_pro(users[u], now) THEN Answer(type, Some(u), Refused(type), 400)
        ELSE IF users[u].stripe_customer_id = None
        THEN \* stripe.Customer.create raises
             \/ Answer(type, Some(u), Refused(type), 400)
             \* the customer is stored, then Session.create raises or answers
             \/ \E code \in {200, 400} :
                   Save(type, u, ev, code,
                        [users[u] EXCEPT !.stripe_customer_id = CustomerId(u)])
        ELSE \* Customer.retrieve or Session.create raises, or both answer
             \E code \in {200, 400} : Answer(type, Some(u), ev, code)

----------------------------------------------------------------------------
(* admin_views.py *)

\* admin upgrade whose grant ends the instant it starts.
admin_upgrade_row_no_grant_period(row, t) ==
    [row EXCEPT !.plan_type = "pro", !.subscription_status = "active",
                !.subscription_start_date = Some(t),
                !.subscription_end_date = Some(t)]

\* admin_views.py 156-159
admin_upgrade_row(row, t) ==
    [row EXCEPT !.plan_type = "pro", !.subscription_status = "active",
                !.subscription_start_date = Some(t),
                !.subscription_end_date = Some(t + ThirtyDays)]

\* admin downgrade that also wipes the subscription dates.
admin_downgrade_row_clears_dates(row) ==
    [row EXCEPT !.plan_type = "free", !.subscription_status = "cancelled",
                !.subscription_start_date = None, !.subscription_end_date = None]

\* admin_views.py 181-182
admin_downgrade_row(row) ==
    [row EXCEPT !.plan_type = "free", !.subscription_status = "cancelled"]

AdminUpgradeUser(user_id) ==
    IF user_id \notin Users THEN Answer("admin_upgrade_user", None, Refused("admin_upgrade_user"), 404)
    ELSE Save("admin_upgrade_user", user_id, Event("admin_upgrade_user", "", None), 200,
              admin_upgrade_row(users[user_id], now))

AdminDowngradeUser(user_id) ==
    IF user_id \notin Users THEN Answer("admin_downgrade_user", None, Refused("admin_downgrade_user"), 404)
    ELSE Save("admin_downgrade_user", user_id, Event("admin_downgrade_user", "", None), 200,
              admin_downgrade_row(users[user_id]))

\* Values a PATCH body can give subscription_status: the four the model
\* names and a string that is none of them.
PatchStatuses == Statuses \cup {"paused"}

\* request.data of admin_user_detail, PATCH: each of the two keys is absent
\* or given; plan_type may be a string that is no plan.
AdminPatchData ==
    [plan_type : {None, Some("free"), Some("pro"), Some("gold")},
     subscription_status : {None} \cup {Some(s) : s \in PatchStatuses}]

\* admin_views.py 126-137: the assignments of the PATCH branch
admin_patch_row(row, data) ==
    [row EXCEPT
        !.plan_type =
            IF data.plan_type # None /\ data.plan_type[1] \in {"free", "pro"}
            THEN data.plan_type[1] ELSE @,
        !.subscription_status =
            IF data.subscription_status # None THEN data.subscription_status[1] ELSE @]

\* admin_user_detail, PATCH, by an admin
AdminUserDetailPatch(user_id, data) ==
    LET op == "admin_user_detail"
        ev == [type |-> "PATCH", data |-> Some(data)]
    IN  IF user_id \notin Users THEN Answer(op, None, ev, 404)
        ELSE Save(op, user_id, ev, 200, admin_patch_row(users[user_id], data))

----------------------------------------------------------------------------
(* views.py: user_profile, serializers.py: UserSerializer *)

\* Values a PUT/PATCH body can give plan_type: the two choices and a string
\* that is not a choice.
ProfilePlanTypes == PlanTypes \cup {"gold"}

\* request.data of a profile update, reduced to the entitlement fields the
\* serializer lists: each is absent or given.  A body with neither changes
\* only names and the like.
ProfileData ==
    [plan_type : {None} \cup {Some(p) : p \in ProfilePlanTypes},
     subscription_status : {None} \cup {Some(s) : s \in Statuses}]

\* serializer.is_valid(): plan_type is a choice field of the model.
is_valid(data) ==
    data.plan_type = None \/ data.plan_type[1] \in PlanTypes

\* serializer.save() with partial=True: the fields given replace the row's.
profile_row(row, data) ==
    [row EXCEPT
        !.plan_type = IF data.plan_type # None THEN data.plan_type[1] ELSE @,
        !.subscription_status =
            IF data.subscription_status # None THEN data.subscription_status[1] ELSE @]

\* user_profile, GET
UserProfileGet(u) ==
    Answer("user_profile", Some(u), [type |-> "GET", data |-> None], 200)

\* user_profile, PUT or PATCH, by the authenticated user u
UserProfileUpdate(u, data) ==
    LET ev == [type |-> "PATCH", data |-> Some(data)] IN
    IF is_valid(data)
    THEN Save("user_profile", u, ev, 200, profile_row(users[u], data))
    ELSE Answer("user_profile", Some(u), ev, 400)

----------------------------------------------------------------------------
(* The subscription state machine *)

Init ==
    /\ now = 0
    /\ users = [u \in Users |-> NewUser]
    /\ documents = NoRows
    /\ summaries = NoRows
    /\ flashcards = NoCards
    /\ reqs = NoUploads
    /\ delivered = {}
    /\ last = NoRequest

\* The user the billing events and the admin act on, and the ids an admin
\* names: that user's and one no row has.  The other user is a bystander who
\* calls verify_payment on sessions that are not theirs.
Customers == {FirstUser}

AddressedIds == {FirstUser} \cup (DOMAIN IdStrings \ Users)

WebhookTypes ==
    {"checkout.session.completed", "customer.subscription.deleted",
     "invoice.payment_failed"}

Next ==
    \/ Tick
    \/ \E type \in WebhookTypes, sub \in Subscriptions : WebhookRejected(type, sub)
    \/ \E sub \in Subscriptions : WebhookCheckoutCompleted(sub)
    \/ \E sub \in Subscriptions : WebhookSubscriptionDeleted(sub)
    \/ \E sub \in Subscriptions : WebhookPaymentFailed(sub)
    \/ \E u \in Users, sub \in Subscriptions : VerifyPayment(u, sub)
    \/ \E u \in Customers : CreateCheckoutSession(u)
    \/ \E user_id \in AddressedIds : AdminUpgradeUser(user_id)
    \/ \E user_id \in AddressedIds : AdminDowngradeUser(user_id)

Spec == Init /\ [][Next]_vars

\* The requests a user who is no admin can send about their own account,
\* from registration on.
NextProfile ==
    \/ Tick
    \/ \E u \in Customers : UserProfileGet(u)
    \/ \E u \in Customers, data \in ProfileData : UserProfileUpdate(u, data)
    \/ \E u \in Customers : CreateCheckoutSession(u)

SpecProfile == Init /\ [][NextProfile]_vars

\* The requests of an admin about a user's plan, and that user's own profile
\* updates, from registration on.
NextAdmin ==
    \/ Tick
    \/ \E user_id \in AddressedIds, data \in AdminPatchData :
          AdminUserDetailPatch(user_id, data)
    \/ \E user_id \in AddressedIds : AdminUpgradeUser(user_id)
    \/ \E user_id \in AddressedIds : AdminDowngradeUser(user_id)
    \/ \E u \in Customers, data \in ProfileData : UserProfileUpdate(u, data)

SpecAdmin == Init /\ [][NextAdmin]_vars

----------------------------------------------------------------------------
(* views.py: DocumentViewSet.perform_create *)

\* The ValueError perform_create raises is no APIException: the framework
\* answers 500.  error names which check raised it.
Raised(error) == [code |-> 500, error |-> error]

Created == [code |-> 201, error |-> ""]

\* serializer.save(user=...): one more Document row, uploaded_at = now.
DocumentSaved(u) == [documents EXCEPT ![u][now] = @ + 1]

\* perform_create without the document-limit check.
DocumentUpload_no_limit_check(u, size) ==
    LET op == "document_upload" IN
    IF ~check_file_size_limit(u, now, size)
    THEN /\ last' = Handled(op, Some(u), FileOf(op, size), Raised("file_size"))
         /\ UNCHANGED <<now, users, documents, summaries, flashcards, reqs, delivered>>
    ELSE /\ documents' = DocumentSaved(u)
         /\ last' = Handled(op, Some(u), FileOf(op, size), Created)
         /\ UNCHANGED <<now, users, summaries, flashcards, reqs, delivered>>

\* One upload from its first line to its last, no other request in between.
DocumentUpload(u, size) ==
    LET op == "document_upload" IN
    IF ~check_file_size_limit(u, now, size)
    THEN /\ last' = Handled(op, Some(u), FileOf(op, size), Raised("file_size"))
         /\ UNCHANGED <<now, users, documents, summaries, flashcards, reqs, delivered>>
    ELSE IF ~check_document_limit(u, now).allowed
    THEN /\ last' = Handled(op, Some(u), FileOf(op, size), Raised("document_limit"))
         /\ UNCHANGED <<now, users, documents, summaries, flashcards, reqs, delivered>>
    ELSE /\ documents' = DocumentSaved(u)
         /\ last' = Handled(op, Some(u), FileOf(op, size), Created)
         /\ UNCHANGED <<now, users, summaries, flashcards, reqs, delivered>>

\* Rows of the uploading user: never subscribed, subscribed without an end
\* date, subscribed until e, and subscribed with a failed payment.
UploadUserRows ==
    {NewUser,
     [NewUser EXCEPT !.plan_type = "pro", !.subscription_start_date = Some(0)],
     [NewUser EXCEPT !.plan_type = "pro", !.subscription_status = "past_due",
                     !.subscription_start_date = Some(0)]}
    \cup
    {[NewUser EXCEPT !.plan_type = "pro", !.subscription_start_date = Some(0),
                     !.subscription_end_date = Some(e)] : e \in 1..MaxNow}

\* The other user's documents, there before the first upload.
BystanderRows ==
    [u \in Users |-> [t \in Times |-> IF u # FirstUser /\ t = 0 THEN 2 ELSE 0]]

InitUpload ==
    /\ now = 0
    /\ \E row \in UploadUserRows :
          users = [u \in Users |-> IF u = FirstUser THEN row ELSE NewUser]
    /\ documents = BystanderRows
    /\ summaries = NoRows
    /\ flashcards = NoCards
    /\ reqs = NoUploads
    /\ delivered = {}
    /\ last = NoRequest

\* An entitled user's uploads are unlimited: the model stops them at MaxDocs a month.
UploadsBounded(u) == count_gte(documents, u, start_of_month(now)) < MaxDocs

NextUpload ==
    \/ Tick
    \/ \E u \in Customers, size \in FileSizes :
          UploadsBounded(u) /\ DocumentUpload(u, size)

SpecUpload == InitUpload /\ [][NextUpload]_vars

----------------------------------------------------------------------------
(* Uploads of one user that overlap *)

\* perform_create up to and including check_document_limit (lines 78-93).
UploadCheck(r, u, size) ==
    LET op == "document_upload" IN
    /\ reqs[r].pc = "idle"
    /\ IF ~check_file_size_limit(u, now, size)
       THEN /\ last' = Handled(op, Some(u), FileOf(op, size), Raised("file_size"))
            /\ UNCHANGED reqs
       ELSE IF ~check_document_limit(u, now).allowed
       THEN /\ last' = Handled(op, Some(u), FileOf(op, size), Raised("document_limit"))
            /\ UNCHANGED reqs
       ELSE /\ reqs' = [reqs EXCEPT ![r] = [pc |-> "checked", user |-> Some(u)]]
            /\ UNCHANGED last
    /\ UNCHANGED <<now, users, documents, summaries, flashcards, delivered>>

\* perform_create from serializer.save on (lines 111-116).
UploadSave(r) ==
    /\ reqs[r].pc = "checked"
    /\ documents' = DocumentSaved(reqs[r].user[1])
    /\ reqs' = [reqs EXCEPT ![r] = [pc |-> "idle", user |-> None]]
    /\ last' = Handled("document_upload", reqs[r].user,
                       FileOf("document_upload", 0), Created)
    /\ UNCHANGED <<now, users, summaries, flashcards, delivered>>

InitRace ==
    /\ now = 0
    /\ users = [u \in Users |-> NewUser]
    /\ documents = BystanderRows
    /\ summaries = NoRows
    /\ flashcards = NoCards
    /\ reqs = NoUploads
    /\ delivered = {}
    /\ last = NoRequest

NextRace ==
    \/ Tick
    \/ \E r \in 1..NReq, u \in Customers, size \in FileSizes : UploadCheck(r, u, size)
    \/ \E r \in 1..NReq : UploadSave(r)

SpecRace == InitRace /\ [][NextRace]_vars

----------------------------------------------------------------------------
(* views.py: generate_summary, generate_flashcards, FlashcardViewSet.perform_create *)

\* Response({'error': ...}, status=403): the answer to a denied check
Denied(error) == [code |-> 403, error |-> error]

\* Response({'error': ...}, status=...) of a step that failed
Failed(code, error) == [code |-> code, error |-> error]

\* self.get_object(): the user owns a document / a summary to name
HasDocument(u) == count_gte(documents, u, 0) > 0

HasSummary(u) == count_gte(summaries, u, 0) > 0

\* request.data.get('num_cards', 10): absent, or an integer
NumCards == {None, Some(0), Some(2), Some(51)}

\* views.py 203-209: an integer outside 1..50 and a missing value become 10
num_cards_of(requested) ==
    IF requested = None THEN 10
    ELSE IF requested[1] < 1 \/ requested[1] > 50 THEN 10
    ELSE requested[1]

\* services.py 185: flashcards[:num_cards], as many cards as the generator
\* gave, num_cards at most
GeneratedCounts(num_cards) == {1, num_cards}

\* Summary.objects.create(user=request.user, ...), created_at = now
SummarySaved(u) == [summaries EXCEPT ![u][now] = @ + 1]

\* Flashcard.objects.create(user=request.user, document=document, ...), n times
CardsSaved(u, n) == [flashcards EXCEPT ![u][now].doc = @ + n]

\* serializer.save(user=request.user) of a manual card: document as supplied
ManualCardSaved(u, document) ==
    IF document # None
    THEN [flashcards EXCEPT ![u][now].doc = @ + 1]
    ELSE [flashcards EXCEPT ![u][now].nodoc = @ + 1]

\* A request that changed no table.
Reply(op, u, ev, res) ==
    /\ last' = Handled(op, Some(u), ev, res)
    /\ UNCHANGED <<now, users, documents, summaries, flashcards, reqs, delivered>>

\* generate_summary gated by the AI-generation check alone.
GenerateSummary_no_summary_check(u) ==
    LET op == "generate_summary"
        ev == [type |-> op, num_cards |-> None]
    IN  IF ~HasDocument(u) THEN Reply(op, u, ev, Failed(404, "not_found"))
        ELSE IF ~check_ai_generation_limit(u, now).allowed
        THEN Reply(op, u, ev, Denied("ai_generation_limit"))
        ELSE \/ Reply(op, u, ev, Failed(400, "no_text"))
             \/ Reply(op, u, ev, Failed(500, "generation_failed"))
             \/ /\ summaries' = SummarySaved(u)
                /\ last' = Handled(op, Some(u), ev, Created)
                /\ UNCHANGED <<now, users, documents, flashcards, reqs, delivered>>

\* DocumentViewSet.generate_summary
GenerateSummary(u) ==
    LET op == "generate_summary"
        ev == [type |-> op, num_cards |-> None]
    IN  IF ~HasDocument(u) THEN Reply(op, u, ev, Failed(404, "not_found"))
        ELSE IF ~check_ai_generation_limit(u, now).allowed
        THEN Reply(op, u, ev, Denied("ai_generation_limit"))
        ELSE IF ~check_summary_limit(u, now).allowed
        THEN Reply(op, u, ev, Denied("summary_limit"))
        ELSE \/ Reply(op, u, ev, Failed(400, "no_text"))
             \/ Reply(op, u, ev, Failed(500, "generation_failed"))
             \/ /\ summaries' = SummarySaved(u)
                /\ last' = Handled(op, Some(u), ev, Created)
                /\ UNCHANGED <<now, users, documents, flashcards, reqs, delivered>>

\* DocumentViewSet.generate_flashcards
GenerateFlashcards(u, requested) ==
    LET op == "generate_flashcards"
        ev == [type |-> op, num_cards |-> requested]
    IN  IF ~HasDocument(u) THEN Reply(op, u, ev, Failed(404, "not_found"))
        ELSE IF ~check_ai_generation_limit(u, now).allowed
        THEN Reply(op, u, ev, Denied("ai_generation_limit"))
        ELSE IF ~check_flashcard_limit(u, now).allowed
        THEN Reply(op, u, ev, Denied("flashcard_limit"))
        ELSE \/ Reply(op, u, ev, Failed(400, "no_text"))
             \/ Reply(op, u, ev, Failed(500, "generation_failed"))
             \/ \E n \in GeneratedCounts(num_cards_of(requested)) :
                   /\ flashcards' = CardsSaved(u, n)
                   /\ last' = Handled(op, Some(u), ev, Created)
                   /\ UNCHANGED <<now, users, documents, summaries, reqs, delivered>>

\* SummaryViewSet.generate_flashcards: document=summary.document, never null
GenerateFlashcardsFromSummary(u, requested) ==
    LET op == "summary_generate_flashcards"
        ev == [type |-> op, num_cards |-> requested]
    IN  IF ~HasSummary(u) THEN Reply(op, u, ev, Failed(404, "not_found"))
        ELSE IF ~check_ai_generation_limit(u, now).allowed
        THEN Reply(op, u, ev, Denied("ai_generation_limit"))
        ELSE IF ~check_flashcard_limit(u, now).allowed
        THEN Reply(op, u, ev, Denied("flashcard_limit"))
        ELSE \/ Reply(op, u, ev, Failed(500, "generation_failed"))
             \/ \E n \in GeneratedCounts(num_cards_of(requested)) :
                   /\ flashcards' = CardsSaved(u, n)
                   /\ last' = Handled(op, Some(u), ev, Created)
                   /\ UNCHANGED <<now, users, documents, summaries, reqs, delivered>>

\* The document field of a manual card's body: absent, or a document's id
CardDocuments == {None, Some("doc")}

\* FlashcardViewSet.perform_create with FlashcardCreateSerializer
FlashcardCreate(u, document) ==
    LET op == "flashcard_create"
        ev == [type |-> op, document |-> document]
    IN  IF ~check_flashcard_limit(u, now).allowed
        THEN Reply(op, u, ev, Raised("flashcard_limit"))
        ELSE /\ flashcards' = ManualCardSaved(u, document)
             /\ last' = Handled(op, Some(u), ev, Created)
             /\ UNCHANGED <<now, users, documents, summaries, reqs, delivered>>

----------------------------------------------------------------------------
(* Content creation by one user while the subscription lapses *)

\* Rows of the creating user: never subscribed, subscribed without an end
\* date, and subscribed until e.
ContentUserRows ==
    {NewUser,
     [NewUser EXCEPT !.plan_type = "pro", !.subscription_start_date = Some(0),
                     !.stripe_subscription_id = Some("sub_a")]}
    \cup
    {[NewUser EXCEPT !.plan_type = "pro", !.subscription_start_date = Some(0),
                     !.stripe_subscription_id = Some("sub_a"),
                     !.subscription_end_date = Some(e)] : e \in 1..MaxNow}

InitContent ==
    /\ now = 0
    /\ \E row \in ContentUserRows :
          users = [u \in Users |-> IF u = FirstUser THEN row ELSE NewUser]
    /\ \E p \in UsageProfiles :
          /\ documents = [u \in Users |-> [t \in Times |->
                IF t # 0 THEN 0 ELSE IF u = FirstUser THEN p.d ELSE 2]]
          /\ summaries = [u \in Users |-> [t \in Times |->
                IF t # 0 THEN 0 ELSE IF u = FirstUser THEN p.s ELSE 2]]
          /\ flashcards = [u \in Users |-> [t \in Times |->
                IF t # 0 THEN [doc |-> 0, nodoc |-> 0]
                ELSE IF u = FirstUser THEN [doc |-> p.fd, nodoc |-> p.fn]
                ELSE [doc |-> 2, nodoc |-> 2]]]
    /\ reqs = NoUploads
    /\ delivered = {}
    /\ last = NoRequest

\* Requests are followed while this month's count of the resource is within
\* two of its free limit; an entitled user's creations stop one above it.
Followed(used, limit) == used >= limit - 2 /\ used <= limit + 1

DocumentsFollowed(u) ==
    Followed(count_gte(documents, u, start_of_month(now)),
             FreeLimits.documents_per_month)

SummariesFollowed(u) ==
    Followed(count_gte(summaries, u, start_of_month(now)),
             FreeLimits.summaries_per_month)

FlashcardsFollowed(u) ==
    Followed(flashcards_gte(u, start_of_month(now)),
             FreeLimits.flashcards_per_month)

AiGenerationsFollowed(u) ==
    Followed(count_gte(summaries, u, start_of_month(now))
                + ai_flashcards_gte(u, start_of_month(now)),
             FreeLimits.ai_generations_per_month)

NextContent ==
    \/ Tick
    \/ \E sub \in Subscriptions : WebhookSubscriptionDeleted(sub)
    \/ \E u \in Customers : AdminDowngradeUser(u)
    \/ \E u \in Customers, size \in FileSizes :
          DocumentsFollowed(u) /\ DocumentUpload(u, size)
    \/ \E u \in Customers :
          (SummariesFollowed(u) \/ AiGenerationsFollowed(u)) /\ GenerateSummary(u)
    \/ \E u \in Customers, requested \in NumCards :
          (FlashcardsFollowed(u) \/ AiGenerationsFollowed(u))
             /\ GenerateFlashcards(u, requested)
    \/ \E u \in Customers, requested \in NumCards :
          (FlashcardsFollowed(u) \/ AiGenerationsFollowed(u))
             /\ GenerateFlashcardsFromSummary(u, requested)
    \/ \E u \in Customers, document \in CardDocuments :
          (FlashcardsFollowed(u) \/ (document # None /\ AiGenerationsFollowed(u)))
             /\ FlashcardCreate(u, document)

SpecContent == InitContent /\ [][NextContent]_vars

----------------------------------------------------------------------------
(* Requests on one user row whose read and save lie apart *)

\* The two requests of a run: a webhook delivery, and a request of the admin
\* or of the user.
RowRequests == {"webhook", "request"}

NotReceived ==
    [pc |-> "idle", op |-> "none", user |-> None, ev |-> Event("none", "", None),
     row |-> None, wrote |-> None, read |-> 0, saved |-> 0]

\* How many reads and answers there have been.
Moves ==
    Cardinality({k \in RowRequests : reqs[k].pc # "idle"})
        + Cardinality({k \in RowRequests : reqs[k].pc = "done"})

\* User.objects.get(...) / request.user: the handler holds a copy of the row.
RowRead(k, op, u, ev) ==
    /\ reqs[k].pc = "idle"
    /\ reqs' = [reqs EXCEPT ![k] =
                   [pc |-> "loaded", op |-> op, user |-> Some(u), ev |-> ev,
                    row |-> Some(users[u]), wrote |-> None,
                    read |-> Moves + 1, saved |-> 0]]
    /\ UNCHANGED <<now, users, documents, summaries, flashcards, delivered, last>>

\* A request answered before any row was read.
RowMissed(k, op, ev, code) ==
    /\ reqs[k].pc = "idle"
    /\ reqs' = [reqs EXCEPT ![k] =
                   [NotReceived EXCEPT !.pc = "done", !.op = op, !.ev = ev,
                                       !.read = Moves + 1, !.saved = Moves + 2]]
    /\ last' = Handled(op, None, ev, code)
    /\ UNCHANGED <<now, users, documents, summaries, flashcards, delivered>>

\* The handler's answer; written is the row user.save() stores, every field
\* of it taken from the handler's copy, or None when the handler saves nothing.
RowAnswer(k, ev, code, written) ==
    LET q == reqs[k]
        u == q.user[1]
    IN  /\ q.pc = "loaded"
        /\ users' = IF written = None THEN users
                    ELSE [users EXCEPT ![u] = written[1]]
        /\ reqs' = [reqs EXCEPT ![k].pc = "done", ![k].ev = ev,
                                ![k].wrote = written, ![k].saved = Moves + 1]
        /\ last' = Handled(q.op, q.user, ev, code)
        /\ delivered' = IF q.op = "webhook" /\ written # None
                        THEN delivered \cup {<<ev.type, ev.subscription>>}
                        ELSE delivered
        /\ UNCHANGED <<now, documents, summaries, flashcards>>

\* stripe_webhook up to the row it loads.
WebhookRead(type, sub) ==
    LET k == "webhook" IN
    IF type = "checkout.session.completed"
    THEN IF int(MetadataUserId[sub]) \notin Users
         THEN RowMissed(k, "webhook", Refused(type), 200)
         ELSE RowRead(k, "webhook", int(MetadataUserId[sub]), Event(type, sub, None))
    ELSE IF UsersBySubscription(sub) = {}
         THEN RowMissed(k, "webhook", Refused(type), 200)
         ELSE \E u \in UsersBySubscription(sub) :
                 RowRead(k, "webhook", u, Event(type, sub, None))

\* stripe_webhook from the loaded row to user.save().
WebhookSave ==
    LET q == reqs["webhook"]
        type == q.ev.type
        sub == q.ev.subscription
    IN  /\ q.pc = "loaded"
        /\ IF type = "checkout.session.completed"
           THEN \/ RowAnswer("webhook", q.ev, 500, None)
                \/ \E period_end \in PeriodEnds :
                      RowAnswer("webhook", Event(type, sub, period_end), 200,
                                Some(checkout_completed_row(q.row[1], sub, period_end, now)))
           ELSE IF type = "customer.subscription.deleted"
           THEN RowAnswer("webhook", q.ev, 200, Some(subscription_deleted_row(q.row[1])))
           ELSE RowAnswer("webhook", q.ev, 200, Some(payment_failed_row(q.row[1])))

AdminOps == {"admin_upgrade_user", "admin_downgrade_user"}

\* admin_upgrade_user / admin_downgrade_user: User.objects.get(id=user_id)
AdminRead(op, user_id) ==
    IF user_id \notin Users THEN RowMissed("request", op, Refused(op), 404)
    ELSE RowRead("request", op, user_id, Event(op, "", None))

\* admin_upgrade_user / admin_downgrade_user from the loaded row to user.save()
AdminSave ==
    LET q == reqs["request"] IN
    /\ q.pc = "loaded"
    /\ q.op \in AdminOps
    /\ RowAnswer("request", q.ev, 200,
                 Some(IF q.op = "admin_upgrade_user"
                      THEN admin_upgrade_row(q.row[1], now)
                      ELSE admin_downgrade_row(q.row[1])))

\* Bodies of the profile updates that race: names only, and a plan_type.
RacingProfileData ==
    {data \in ProfileData :
        data.subscription_status = None /\ data.plan_type \in {None, Some("pro")}}

\* user_profile, PUT or PATCH: request.user as authentication loaded it
ProfileRead(u, data) ==
    RowRead("request", "user_profile", u, [type |-> "PATCH", data |-> Some(data)])

\* user_profile from is_valid() to serializer.save()
ProfileSave ==
    LET q == reqs["request"] IN
    /\ q.pc = "loaded"
    /\ q.op = "user_profile"
    /\ IF is_valid(q.ev.data[1])
       THEN RowAnswer("request", q.ev, 200, Some(profile_row(q.row[1], q.ev.data[1])))
       ELSE RowAnswer("request", q.ev, 400, None)

\* create_checkout_session: request.user as authentication loaded it
CheckoutRead(u) ==
    RowRead("request", "create_checkout_session", u,
            Event("create_checkout_session", "", None))

\* create_checkout_session from the is_pro test to its answer
CheckoutSave ==
    LET q == reqs["request"] IN
    /\ q.pc = "loaded"
    /\ q.op = "create_checkout_session"
    /\ IF is_pro(q.row[1], now) THEN RowAnswer("request", q.ev, 400, None)
       ELSE IF q.row[1].stripe_customer_id = None
       THEN \/ RowAnswer("request", q.ev, 400, None)
            \/ \E code \in {200, 400} :
                  RowAnswer("request", q.ev, code,
                            Some([q.row[1] EXCEPT !.stripe_customer_id = CustomerId(q.user[1])]))
       ELSE \E code \in {200, 400} : RowAnswer("request", q.ev, code, None)

\* Rows of the user before the two requests: never subscribed, and subscribed
\* through checkout with or without an end date.
RacingUserRows ==
    {NewUser}
    \cup
    {[NewUser EXCEPT !.plan_type = "pro", !.subscription_start_date = Some(0),
                     !.stripe_customer_id = CustomerId(FirstUser),
                     !.stripe_subscription_id = Some("sub_a"),
                     !.subscription_end_date = e] : e \in {None, Some(MaxNow)}}

InitRows ==
    /\ now = 0
    /\ \E row \in RacingUserRows :
          users = [u \in Users |-> IF u = FirstUser THEN row ELSE NewUser]
    /\ documents = NoRows
    /\ summaries = NoRows
    /\ flashcards = NoCards
    /\ reqs = [k \in RowRequests |-> NotReceived]
    /\ delivered = {}
    /\ last = NoRequest

NextRows ==
    \/ \E type \in WebhookTypes, sub \in Subscriptions : WebhookRead(type, sub)
    \/ WebhookSave
    \/ \E op \in AdminOps, user_id \in AddressedIds : AdminRead(op, user_id)
    \/ AdminSave
    \/ \E u \in Customers, data \in RacingProfileData : ProfileRead(u, data)
    \/ ProfileSave
    \/ \E u \in Customers : CheckoutRead(u)
    \/ CheckoutSave

SpecRows == InitRows /\ [][NextRows]_vars

----------------------------------------------------------------------------
(* Uploads and deletions of one user's documents *)

\* In this model reqs counts the uploads answered 201: reqs[u][t] of user u
\* at tick t, whether the document is still stored or not.
UploadAnswered(u) == [reqs EXCEPT ![u][now] = @ + 1]

\* The size of the files uploaded here: one the free plan accepts.
SmallFile == FreeLimits.max_file_size_mb * 1024 * 1024

\* perform_create, from its first line to its last, with the 201 counted.
DocumentUploadCounted(u, size) ==
    LET op == "document_upload" IN
    IF ~check_file_size_limit(u, now, size)
    THEN /\ last' = Handled(op, Some(u), FileOf(op, size), Raised("file_size"))
         /\ UNCHANGED <<now, users, documents, summaries, flashcards, reqs, delivered>>
    ELSE IF ~check_document_limit(u, now).allowed
    THEN /\ last' = Handled(op, Some(u), FileOf(op, size), Raised("document_limit"))
         /\ UNCHANGED <<now, users, documents, summaries, flashcards, reqs, delivered>>
    ELSE /\ documents' = DocumentSaved(u)
         /\ reqs' = UploadAnswered(u)
         /\ last' = Handled(op, Some(u), FileOf(op, size), Created)
         /\ UNCHANGED <<now, users, summaries, flashcards, delivered>>

\* ModelViewSet.destroy on a document of the user uploaded at tick t.  The
\* user has no summaries or flashcards here, so the cascade removes none.
DocumentDelete(u, t) ==
    /\ documents[u][t] > 0
    /\ documents' = [documents EXCEPT ![u][t] = @ - 1]
    /\ last' = Handled("document_delete", Some(u), Event("document_delete", "", None),
                       [code |-> 204, error |-> ""])
    /\ UNCHANGED <<now, users, summaries, flashcards, reqs, delivered>>

\* A user who never subscribed and has uploaded two documents less than the
\* free limit this month, all still stored.
InitDelete ==
    /\ now = 0
    /\ users = [u \in Users |-> NewUser]
    /\ documents = [u \in Users |-> [t \in Times |->
          IF t # 0 THEN 0
          ELSE IF u = FirstUser THEN FreeLimits.documents_per_month - 2 ELSE 2]]
    /\ summaries = NoRows
    /\ flashcards = NoCards
    /\ reqs = [u \in Users |-> [t \in Times |->
          IF t = 0 /\ u = FirstUser THEN FreeLimits.documents_per_month - 2 ELSE 0]]
    /\ delivered = {}
    /\ last = NoRequest

\* The model stops the uploads of a month at MaxDocs.
UploadsCountedBounded(u) == count_gte(reqs, u, start_of_month(now)) < MaxDocs

NextDelete ==
    \/ Tick
    \/ \E u \in Customers :
          UploadsCountedBounded(u) /\ DocumentUploadCounted(u, SmallFile)
    \/ \E u \in Customers, t \in Times : DocumentDelete(u, t)

SpecDelete == InitDelete /\ [][NextDelete]_vars

----------------------------------------------------------------------------
(* The staff flags: UserSerializer on the profile endpoint, IsAdminUser *)

\* The row create_user() writes, with the two flags of AbstractUser the
\* serializer lists; both default to False.
NewAccount ==
    [plan_type |-> "free", subscription_status |-> "active",
     subscription_start_date |-> None, subscription_end_date |-> None,
     stripe_customer_id |-> None, stripe_subscription_id |-> None,
     is_staff |-> FALSE, is_superuser |-> FALSE]

\* request.data of a profile update that names the flags: each is absent or
\* given; the entitlement fields are absent.
AccountData ==
    [plan_type : {None}, subscription_status : {None},
     is_staff : {None, Some(TRUE), Some(FALSE)},
     is_superuser : {None, Some(TRUE), Some(FALSE)}]

\* serializer.save() with partial=True over the fields of UserSerializer:
\* none is read-only, the flags given replace the row's.
account_row(row, data) ==
    [profile_row(row, data) EXCEPT
        !.is_staff = IF data.is_staff # None THEN data.is_staff[1] ELSE @,
        !.is_superuser = IF data.is_superuser # None THEN data.is_superuser[1] ELSE @]

\* user_profile, PUT or PATCH, by the authenticated user u
AccountUpdate(u, data) ==
    LET ev == [type |-> "PATCH", data |-> Some(data)] IN
    IF is_valid(data)
    THEN Save("user_profile", u, ev, 200, account_row(users[u], data))
    ELSE Answer("user_profile", Some(u), ev, 400)

\* permission_classes([IsAdminUser]): request.user.is_staff
IsAdminUser(actor) == users[actor].is_staff

\* admin_upgrade_user called by actor; without the permission the framework
\* answers 403 before the view runs.
AdminUpgradeBy(actor, user_id) ==
    IF ~IsAdminUser(actor)
    THEN Answer("admin_upgrade_user", Some(actor), Refused("admin_upgrade_user"), 403)
    ELSE AdminUpgradeUser(user_id)

\* admin_downgrade_user called by actor
AdminDowngradeBy(actor, user_id) ==
    IF ~IsAdminUser(actor)
    THEN Answer("admin_downgrade_user", Some(actor), Refused("admin_downgrade_user"), 403)
    ELSE AdminDowngradeUser(user_id)

\* Two registered users, neither an admin.
InitAccount ==
    /\ now = 0
    /\ users = [u \in Users |-> NewAccount]
    /\ documents = NoRows
    /\ summaries = NoRows
    /\ flashcards = NoCards
    /\ reqs = NoUploads
    /\ delivered = {}
    /\ last = NoRequest

\* The requests the first user can send, no admin taking part.
NextAccount ==
    \/ Tick
    \/ \E u \in Customers : UserProfileGet(u)
    \/ \E u \in Customers, data \in AccountData : AccountUpdate(u, data)
    \/ \E u \in Customers, user_id \in AddressedIds : AdminUpgradeBy(u, user_id)
    \/ \E u \in Customers, user_id \in AddressedIds : AdminDowngradeBy(u, user_id)

SpecAccount == InitAccount /\ [][NextAccount]_vars

----------------------------------------------------------------------------
(* What the claims say, stated without the code's operators *)

Entitled(row, t) ==
    /\ row.plan_type = "pro"
    /\ row.subscription_status = "active"
    /\ (row.subscription_end_date = None \/ t < row.subscription_end_date[1])

MonthOf(t) == {x \in Times : x \div MonthLen = t \div MonthLen}

RECURSIVE SumOver(_, _)
SumOver(f, S) ==
    IF S = {} THEN 0
    ELSE LET x == CHOOSE y \in S : TRUE IN f[x] + SumOver(f, S \ {x})

UsedDocuments(u, t) == SumOver(documents[u], MonthOf(t))

UsedSummaries(u, t) == SumOver(summaries[u], MonthOf(t))

UsedFlashcards(u, t) ==
    SumOver([x \in Times |-> flashcards[u][x].doc + flashcards[u][x].nodoc], MonthOf(t))

UsedAiGenerations(u, t) ==
    UsedSummaries(u, t) + SumOver([x \in Times |-> flashcards[u][x].doc], MonthOf(t))

Gate(unlimited, limit, used) ==
    IF unlimited THEN [allowed |-> TRUE, remaining |-> None]
    ELSE IF used < limit THEN [allowed |-> TRUE, remaining |-> Some(limit - used)]
    ELSE [allowed |-> FALSE, remaining |-> Some(0)]

\* The result the claims give each check of user u at instant t, the user
\* being treated as entitled or not.
ClaimedCheck(op, u, t, entitled) ==
    CASE op = "check_document_limit" -> Gate(entitled, 10, UsedDocuments(u, t))
      [] op = "check_summary_limit" -> Gate(entitled, 10, UsedSummaries(u, t))
      [] op = "check_flashcard_limit" -> Gate(entitled, 50, UsedFlashcards(u, t))
      [] op = "check_ai_generation_limit" -> Gate(entitled, 20, UsedAiGenerations(u, t))

CodeCheck(op, u, t) ==
    CASE op = "check_document_limit" -> check_document_limit(u, t)
      [] op = "check_summary_limit" -> check_summary_limit(u, t)
      [] op = "check_flashcard_limit" -> check_flashcard_limit(u, t)
      [] op = "check_ai_generation_limit" -> check_ai_generation_limit(u, t)

CheckOps ==
    {"check_document_limit", "check_summary_limit", "check_flashcard_limit",
     "check_ai_generation_limit"}

MB == 1024 * 1024

----------------------------------------------------------------------------
(* C1..C4: the entitlement resolver and the quota gate *)

\* C1: for every user row and every instant, is_pro is true exactly when
\* plan_type is 'pro', subscription_status is 'active' and the end date is
\* null or still ahead; reading it (dashboard_stats) changes no row.
C1_IsProContract ==
    /\ [](/\ \A u \in Users : is_pro(users[u], now) <=> Entitled(users[u], now)
          /\ last.op = "is_pro" =>
                (last.res <=> Entitled(users[last.user[1]], last.at)))
    /\ [][\A u \in Users :
             EvalIsPro(u) => UNCHANGED <<now, users, documents, summaries, flashcards>>]_vars

\* is_pro was read as true and the clock alone has since made it false.
C1_Witness ==
    /\ last.op = "is_pro"
    /\ last.res
    /\ ~is_pro(users[last.user[1]], now)

\* C2: get_plan_limits is the pro set {-1, -1, -1, 50 MB, -1} when the user
\* is entitled and the free set {10, 10, 50, 10 MB, 20} in every other state.
C2_PlanLimits ==
    /\ \A u \in Users :
          get_plan_limits(users[u], now) =
             IF Entitled(users[u], now)
             THEN [documents_per_month |-> -1, summaries_per_month |-> -1,
                   flashcards_per_month |-> -1, max_file_size_mb |-> 50,
                   ai_generations_per_month |-> -1]
             ELSE [documents_per_month |-> 10, summaries_per_month |-> 10,
                   flashcards_per_month |-> 50, max_file_size_mb |-> 10,
                   ai_generations_per_month |-> 20]
    /\ last.op = "get_plan_limits" =>
          last.res.documents_per_month =
             IF Entitled(users[last.user[1]], last.at) THEN -1 ELSE 10

\* get_plan_limits gave the free set to a 'pro' row whose status is not active.
C2_Witness ==
    /\ last.op = "get_plan_limits"
    /\ users[last.user[1]].plan_type = "pro"
    /\ users[last.user[1]].subscription_status = "past_due"
    /\ last.res.documents_per_month = 10
    /\ last.res.max_file_size_mb = 10

Expired(u, t) ==
    /\ users[u].subscription_end_date # None
    /\ t >= users[u].subscription_end_date[1]

\* C3: once now >= subscription_end_date, is_pro is false whatever the status
\* and every quota check and the file-size check use the free limits, with
\* no write needed.
C3_ExpiryByClock ==
    /\ \A u \in Users : Expired(u, now) =>
          /\ ~is_pro(users[u], now)
          /\ \A op \in CheckOps : CodeCheck(op, u, now) = ClaimedCheck(op, u, now, FALSE)
          /\ \A size \in FileSizes :
                check_file_size_limit(u, now, size) <=> size <= 10 * MB
    /\ (last.op \in CheckOps /\ Expired(last.user[1], last.at)) =>
          last.res = ClaimedCheck(last.op, last.user[1], last.at, FALSE)

\* A document check answered "unlimited" before the end date; the clock has
\* passed the end date since and the same check now denies.
C3_Witness ==
    /\ last.op = "check_document_limit"
    /\ last.res.remaining = None
    /\ Expired(last.user[1], now)
    /\ ~check_document_limit(last.user[1], now).allowed

\* C4: each check_*_limit returns (allowed, unlimited) for the unlimited
\* sentinel, (allowed, limit - used) while used < limit and (denied, 0) from
\* used = limit on, used being the rows of this month.
C4_QuotaGate ==
    /\ \A u \in Users, op \in CheckOps :
          CodeCheck(op, u, now) = ClaimedCheck(op, u, now, Entitled(users[u], now))
    /\ last.op \in CheckOps =>
          last.res = ClaimedCheck(last.op, last.user[1], last.at,
                                  Entitled(users[last.user[1]], last.at))

\* A free user with exactly 10 documents this month was denied with 0 left.
C4_Witness ==
    /\ last.op = "check_document_limit"
    /\ last.at = now
    /\ ~Entitled(users[last.user[1]], now)
    /\ UsedDocuments(last.user[1], now) = 10
    /\ last.res = [allowed |-> FALSE, remaining |-> Some(0)]

----------------------------------------------------------------------------
(* C5, C6: the document quota under sequential and overlapping uploads *)

\* The user was entitled at no instant of the current month so far.
NotEntitledThisMonth(u) ==
    \A t \in MonthOf(now) : t <= now => ~Entitled(users[u], t)

\* C5: with uploads running one after the other, a user not entitled during
\* the month never has more than 10 documents created in it, and an upload
\* attempted with 10 or more there is denied and creates no Document row.
C5_SequentialUploadCap ==
    /\ [](\A u \in Users : NotEntitledThisMonth(u) => UsedDocuments(u, now) <= 10)
    /\ [][\A u \in Users, size \in FileSizes :
             (/\ DocumentUpload(u, size)
              /\ ~Entitled(users[u], now)
              /\ UsedDocuments(u, now) >= 10)
             => (documents' = documents /\ last'.res.code # 201)]_vars

\* The 11th upload of the month by a user never entitled in it was refused
\* for the document limit, the file being small enough.
C5_Witness ==
    /\ last.op = "document_upload"
    /\ last.at = now
    /\ last.res = Raised("document_limit")
    /\ last.ev.size <= 10 * MB
    /\ NotEntitledThisMonth(last.user[1])
    /\ UsedDocuments(last.user[1], now) = 10

\* C6: when NReq uploads of one free user overlap, all of them can pass the
\* check before any saves, so the month's count can pass 10, and it never
\* passes 10 by more than NReq - 1.
C6_RaceExcess ==
    \A u \in Users :
        NotEntitledThisMonth(u) => UsedDocuments(u, now) <= 10 + (NReq - 1)

\* Every overlapping upload was allowed and saved: the free user's month
\* holds 10 + (NReq - 1) documents, more than the limit.
C6_Witness ==
    /\ last.op = "document_upload"
    /\ last.res = Created
    /\ \A r \in 1..NReq : reqs[r].pc = "idle"
    /\ NotEntitledThisMonth(last.user[1])
    /\ UsedDocuments(last.user[1], now) = 10 + (NReq - 1)
    /\ UsedDocuments(last.user[1], now) > 10

----------------------------------------------------------------------------
(* C7..C10: payment failed and checkout completed *)

\* The last request saved a row for the event type given.
Applied(type) == last.ev # None /\ last.ev.type = type /\ last.user # None /\ last.res = 200

C8_PaymentFailedFrame ==
    [][\A sub \in Subscriptions :
          (WebhookPaymentFailed(sub) /\ last'.user # None) =>
             LET u == last'.user[1] IN
             /\ users[u].stripe_subscription_id = Some(sub)
             /\ users'[u].subscription_status = "past_due"
             /\ users'[u].plan_type = users[u].plan_type
             /\ users'[u].subscription_start_date = users[u].subscription_start_date
             /\ users'[u].subscription_end_date = users[u].subscription_end_date
             /\ users'[u].stripe_customer_id = users[u].stripe_customer_id
             /\ users'[u].stripe_subscription_id = users[u].stripe_subscription_id
             /\ \A v \in Users \ {u} : users'[v] = users[v]]_vars

\* 'payment failed' was applied to a 'pro' user holding dates and both references.
C8_Witness ==
    /\ Applied("invoice.payment_failed")
    /\ users[last.user[1]].subscription_status = "past_due"
    /\ users[last.user[1]].plan_type = "pro"
    /\ users[last.user[1]].subscription_end_date # None
    /\ users[last.user[1]].stripe_customer_id # None
    /\ users[last.user[1]].stripe_subscription_id # None

EntitlementFields(row) ==
    <<row.plan_type, row.subscription_status, row.stripe_subscription_id,
      row.subscription_start_date, row.subscription_end_date>>

\* C9: a 'checkout completed' event applied a second time, on the webhook or
\* through verify_payment, with nothing but the clock moving in between,
\* leaves the entitlement fields as the first application left them.
C9_CheckoutIdempotent ==
    [][\A u \in Users :
          (/\ last'.repeat
           /\ last'.user = Some(u)
           /\ last'.res = 200
           /\ last'.ev.type \in {"checkout.session.completed", "verify_payment"}
           /\ users' # users)
          => EntitlementFields(users'[u]) = EntitlementFields(users[u])]_vars

\* C10: after a 'checkout completed' event is applied to an existing user, by
\* the webhook or by verify_payment, the user is pro/active with the event's
\* subscription id, start = the processing time and end = the period end the
\* event carries.
C10_CheckoutCompleted ==
    (Applied("checkout.session.completed") \/ Applied("verify_payment")) =>
        LET row == users[last.user[1]] IN
        /\ row.plan_type = "pro"
        /\ row.subscription_status = "active"
        /\ row.stripe_subscription_id = Some(last.ev.subscription)
        /\ row.subscription_start_date = Some(last.at)
        /\ Truthy(last.ev.period_end) => row.subscription_end_date = last.ev.period_end

\* The webhook applied a checkout whose period end differs from the end date
\* an admin grant at that instant would have written.
C10_Witness ==
    /\ Applied("checkout.session.completed")
    /\ last.op = "webhook"
    /\ last.ev.period_end # None
    /\ users[last.user[1]].subscription_end_date = last.ev.period_end
    /\ last.ev.period_end # Some(last.at + ThirtyDays)
    /\ users[last.user[1]].stripe_subscription_id = Some(last.ev.subscription)

----------------------------------------------------------------------------
(* C11..C20: the remaining transitions, replays and denials *)

\* C11: a 'checkout completed' event that carries no period end, applied by
\* the webhook or by verify_payment, leaves subscription_end_date at the
\* processing time plus 30 days, whatever it was before.
C11_CheckoutFallback ==
    ((Applied("checkout.session.completed") \/ Applied("verify_payment"))
        /\ ~Truthy(last.ev.period_end))
    => users[last.user[1]].subscription_end_date = Some(last.at + ThirtyDays)

\* C12 as claimed: a user entitled when 'subscription deleted' is applied
\* stays entitled at every instant before subscription_end_date and stops
\* being entitled only when that date is reached.
C12_CancelKeepsAccess ==
    (Applied("customer.subscription.deleted") /\ last.was_pro) =>
        LET row == users[last.user[1]] IN
        \A t \in last.at..(MaxNow + ThirtyDays) :
            is_pro(row, t) <=>
                (row.subscription_end_date = None \/ t < row.subscription_end_date[1])

\* C12 as the code has it: 'subscription deleted' applied to the matched user
\* ends entitlement at once: the row is free/cancelled, so is_pro is false at
\* every instant, before subscription_end_date too.
C12_CancelRevokes ==
    Applied("customer.subscription.deleted") =>
        LET row == users[last.user[1]] IN
        /\ row.plan_type = "free"
        /\ row.subscription_status = "cancelled"
        /\ \A t \in 0..(MaxNow + ThirtyDays) : ~is_pro(row, t)

\* A user entitled when 'subscription deleted' arrived is inside the paid
\* period and no longer entitled.
C12_Witness ==
    /\ Applied("customer.subscription.deleted")
    /\ last.was_pro
    /\ users[last.user[1]].subscription_end_date # None
    /\ now < users[last.user[1]].subscription_end_date[1]
    /\ ~is_pro(users[last.user[1]], now)

\* C13: 'subscription deleted' for the subscription id a user holds writes
\* plan_type 'free', subscription_status 'cancelled' and a null
\* stripe_subscription_id on that user, and changes no other user.
C13_SubscriptionDeleted ==
    [][\A sub \in Subscriptions, u \in Users :
          (WebhookSubscriptionDeleted(sub) /\ users[u].stripe_subscription_id = Some(sub))
          => /\ users'[u].plan_type = "free"
             /\ users'[u].subscription_status = "cancelled"
             /\ users'[u].stripe_subscription_id = None
             /\ \A v \in Users \ {u} : users'[v] = users[v]]_vars

\* 'subscription deleted' was applied to a user who came from a checkout:
\* the reference is gone, the customer and the dates are still there.
C13_Witness ==
    /\ Applied("customer.subscription.deleted")
    /\ users[last.user[1]].plan_type = "free"
    /\ users[last.user[1]].subscription_status = "cancelled"
    /\ users[last.user[1]].stripe_subscription_id = None
    /\ users[last.user[1]].stripe_customer_id # None
    /\ users[last.user[1]].subscription_start_date # None

\* C14: admin upgrade of an existing user writes pro / active / start = the
\* time of the call / end = that time plus 30 days whatever the row held,
\* leaves both billing references as they were, and the user is entitled
\* right after it.
C14_AdminUpgrade ==
    [][\A u \in Users :
          AdminUpgradeUser(u) =>
             /\ users'[u].plan_type = "pro"
             /\ users'[u].subscription_status = "active"
             /\ users'[u].subscription_start_date = Some(now)
             /\ users'[u].subscription_end_date = Some(now + ThirtyDays)
             /\ users'[u].stripe_customer_id = users[u].stripe_customer_id
             /\ users'[u].stripe_subscription_id = users[u].stripe_subscription_id
             /\ Entitled(users'[u], now')
             /\ last'.res = 200]_vars

\* An admin upgraded a user who was cancelled remotely and was not entitled:
\* the customer reference is kept and the user is entitled.
C14_Witness ==
    /\ Applied("admin_upgrade_user")
    /\ last.at = now
    /\ ~last.was_pro
    /\ users[last.user[1]].stripe_customer_id # None
    /\ users[last.user[1]].subscription_end_date = Some(now + ThirtyDays)
    /\ is_pro(users[last.user[1]], now)

\* C15: admin downgrade of an existing user writes free / cancelled whatever
\* the row held, leaves both dates and both billing references as they were,
\* and the user is not entitled right after it.
C15_AdminDowngrade ==
    [][\A u \in Users :
          AdminDowngradeUser(u) =>
             /\ users'[u].plan_type = "free"
             /\ users'[u].subscription_status = "cancelled"
             /\ users'[u].subscription_start_date = users[u].subscription_start_date
             /\ users'[u].subscription_end_date = users[u].subscription_end_date
             /\ users'[u].stripe_customer_id = users[u].stripe_customer_id
             /\ users'[u].stripe_subscription_id = users[u].stripe_subscription_id
             /\ ~Entitled(users'[u], now')
             /\ last'.res = 200]_vars

\* An admin downgraded an entitled subscriber inside the paid period: the
\* dates and the subscription reference are still on the row.
C15_Witness ==
    /\ Applied("admin_downgrade_user")
    /\ last.at = now
    /\ last.was_pro
    /\ users[last.user[1]].subscription_end_date # None
    /\ now < users[last.user[1]].subscription_end_date[1]
    /\ users[last.user[1]].stripe_subscription_id # None
    /\ ~is_pro(users[last.user[1]], now)

\* C16: admin upgrade, admin downgrade, 'subscription deleted' and 'payment
\* failed' applied a second time to the same user, with nothing but the clock
\* moving in between, leave every entitlement field as the first application
\* left it.
C16_TransitionsIdempotent ==
    [][\A u \in Users :
          (/\ last.user = Some(u)
           /\ \/ Applied("admin_upgrade_user") /\ AdminUpgradeUser(u)
              \/ Applied("admin_downgrade_user") /\ AdminDowngradeUser(u)
              \/ /\ Applied("customer.subscription.deleted")
                 /\ WebhookSubscriptionDeleted(last.ev.subscription)
              \/ /\ Applied("invoice.payment_failed")
                 /\ WebhookPaymentFailed(last.ev.subscription))
          => EntitlementFields(users'[u]) = EntitlementFields(users[u])]_vars

\* C17: a webhook event that was applied before and is delivered again, after
\* whatever else has been applied to the user since, leaves plan_type,
\* subscription_status and stripe_subscription_id of every user as they were
\* just before the redelivery.
C17_RedeliveryHarmless ==
    [][\A sub \in Subscriptions :
          (\/ /\ <<"checkout.session.completed", sub>> \in delivered
              /\ WebhookCheckoutCompleted(sub)
           \/ /\ <<"customer.subscription.deleted", sub>> \in delivered
              /\ WebhookSubscriptionDeleted(sub)
           \/ /\ <<"invoice.payment_failed", sub>> \in delivered
              /\ WebhookPaymentFailed(sub))
          => \A u \in Users :
                /\ users'[u].plan_type = users[u].plan_type
                /\ users'[u].subscription_status = users[u].subscription_status
                /\ users'[u].stripe_subscription_id = users[u].stripe_subscription_id]_vars

\* No local user carries the id the session's metadata names.
NoUserWithId(sub) == int(MetadataUserId[sub]) \notin Users

\* No local user holds the subscription id.
NoUserWithSubscription(sub) ==
    \A u \in Users : users[u].stripe_subscription_id # Some(sub)

\* C18: a webhook event whose user id or subscription id matches no local
\* user changes no user and no record, and is answered with the success
\* response.
C18_UnmatchedIgnored ==
    [][\A sub \in Subscriptions :
          (/\ last'.op = "webhook"
           /\ \/ NoUserWithId(sub) /\ WebhookCheckoutCompleted(sub)
              \/ NoUserWithSubscription(sub) /\ WebhookSubscriptionDeleted(sub)
              \/ NoUserWithSubscription(sub) /\ WebhookPaymentFailed(sub))
          => /\ users' = users
             /\ documents' = documents
             /\ summaries' = summaries
             /\ flashcards' = flashcards
             /\ last'.res = 200]_vars

\* 'subscription deleted' for a subscription nobody holds was answered 200
\* while a user holding another subscription stayed pro.
C18_Witness ==
    /\ last.op = "webhook"
    /\ last.ev.type = "customer.subscription.deleted"
    /\ last.user = None
    /\ last.res = 200
    /\ \E u \in Users :
          /\ users[u].stripe_subscription_id # None
          /\ users[u].plan_type = "pro"

\* The handlers of billing transitions and admin actions.
EntitlementWriters ==
    {"webhook", "verify_payment", "admin_upgrade_user", "admin_downgrade_user"}

\* C19: rows are free/active after registration, and a step changes
\* plan_type or subscription_status of a user only when it is a billing
\* transition or an admin action; a profile update by the user is neither.
C19_OnlyBillingWrites ==
    [][\A u \in Users :
          /\ last.op = "none" =>
                (users[u].plan_type = "free" /\ users[u].subscription_status = "active")
          /\ (\/ users'[u].plan_type # users[u].plan_type
              \/ users'[u].subscription_status # users[u].subscription_status)
             => last'.op \in EntitlementWriters]_vars

\* C20: a denied quota check is answered with the quota-exceeded outcome, a
\* 403-class response, and never with a 500-class failure; stated here for
\* the document upload, the first of the five operations.
C20_DenialIs403 ==
    (last.op = "document_upload" /\ last.res.error = "document_limit") =>
        (last.res.code >= 400 /\ last.res.code < 500)

----------------------------------------------------------------------------
(* C21..C30: sizes, windows, the usage snapshot, lapses and races *)

\* The byte limit the claims give a user: 50 MB when entitled, 10 MB otherwise.
ClaimedMaxBytes(u, t) == (IF Entitled(users[u], t) THEN 50 ELSE 10) * 1024 * 1024

\* C21: check_file_size_limit is true exactly when size <= the byte limit of
\* the user's current plan, 10 MB when not entitled and 50 MB when entitled,
\* whatever the usage counts are.
C21_FileSizeLimit ==
    /\ \A u \in Users, size \in FileSizes :
          check_file_size_limit(u, now, size) <=> size <= ClaimedMaxBytes(u, now)
    /\ last.op = "check_file_size_limit" =>
          (last.res <=> last.ev.size <= ClaimedMaxBytes(last.user[1], last.at))

\* A user not entitled and at the document limit was allowed exactly 10 MB,
\* a size an entitled user's limit is far above.
C21_Witness ==
    /\ last.op = "check_file_size_limit"
    /\ last.at = now
    /\ ~Entitled(users[last.user[1]], now)
    /\ last.ev.size = 10 * 1024 * 1024
    /\ last.res
    /\ ~check_file_size_limit(last.user[1], now, 10 * 1024 * 1024 + 1)
    /\ UsedDocuments(last.user[1], now) >= 10

\* C22: the AI-generation usage is this month's summaries plus this month's
\* flashcards that have a document; flashcards without one and documents
\* add nothing.
C22_AiUsage ==
    \A u \in Users : ~Entitled(users[u], now) =>
        LET used == SumOver(summaries[u], MonthOf(now))
                    + SumOver([x \in Times |-> flashcards[u][x].doc], MonthOf(now))
        IN  /\ check_ai_generation_limit(u, now).allowed <=> used < 20
            /\ used < 20 => check_ai_generation_limit(u, now).remaining = Some(20 - used)
            /\ (last.op = "check_ai_generation_limit" /\ last.user = Some(u) /\ last.at = now)
                  => (last.res.allowed <=> used < 20)

\* With summaries and document flashcards adding up to 19, and flashcards
\* without a document and documents there too, one generation was left.
C22_Witness ==
    /\ last.op = "check_ai_generation_limit"
    /\ last.at = now
    /\ ~Entitled(users[last.user[1]], now)
    /\ UsedAiGenerations(last.user[1], now) = 19
    /\ UsedFlashcards(last.user[1], now) > UsedAiGenerations(last.user[1], now) - UsedSummaries(last.user[1], now)
    /\ UsedDocuments(last.user[1], now) > 0
    /\ last.res = [allowed |-> TRUE, remaining |-> Some(1)]

\* The first instant of the calendar month t lies in.
FirstInstant(t) ==
    CHOOSE x \in 0..t :
        /\ x \div MonthLen = t \div MonthLen
        /\ \A y \in 0..t : y \div MonthLen = t \div MonthLen => x <= y

\* The records of table f a check at instant t counts, by the claim: those
\* created at T >= the first instant of t's month.
CountedAt(f, t) == SumOver(f, {T \in Times : T >= FirstInstant(t)})

\* C24: a record created at T is counted by a check at now exactly when
\* T >= the first instant of now's month, for the document check and for the
\* AI-generation check; so nothing created in an earlier month is counted.
C24_MonthWindow ==
    \A u \in Users : ~Entitled(users[u], now) =>
        /\ check_document_limit(u, now) = Gate(FALSE, 10, CountedAt(documents[u], now))
        /\ check_ai_generation_limit(u, now) =
              Gate(FALSE, 20,
                   CountedAt(summaries[u], now)
                   + CountedAt([x \in Times |-> flashcards[u][x].doc], now))
        /\ check_document_limit(u, now).allowed <=>
              SumOver(documents[u], {T \in Times : T \div MonthLen = now \div MonthLen}) < 10

\* A user denied in the last instant of a month is allowed all 10 documents
\* in the first instant of the next, the rows being what they were.
C24_Witness ==
    /\ last.op = "check_document_limit"
    /\ ~last.res.allowed
    /\ last.at = now - 1
    /\ now = FirstInstant(now)
    /\ ~Entitled(users[last.user[1]], last.at)
    /\ documents[last.user[1]][last.at] >= 10
    /\ check_document_limit(last.user[1], now) = [allowed |-> TRUE, remaining |-> Some(10)]

\* The remaining value of a check as the snapshot would show it.
ShownRemaining(result) ==
    IF result.remaining = None THEN Unlimited ELSE result.remaining[1]

\* The snapshot entry that composes the gate: the limit and the count the
\* check uses, and the remaining value the check returns.
GateEntry(limit, used, result) ==
    [limit |-> limit, used |-> used, remaining |-> ShownRemaining(result)]

\* C25: for documents, summaries, flashcards and AI generations the
\* snapshot's limit, used and remaining are those of the quota gate at the
\* same instant, also where used is above the limit.
C25_SnapshotComposesGate ==
    \A u \in Users :
        LET shown == usage_snapshot(u, now)
            limits == get_plan_limits(users[u], now)
        IN  /\ shown.documents =
                  GateEntry(limits.documents_per_month, UsedDocuments(u, now),
                            check_document_limit(u, now))
            /\ shown.summaries =
                  GateEntry(limits.summaries_per_month, UsedSummaries(u, now),
                            check_summary_limit(u, now))
            /\ shown.flashcards =
                  GateEntry(limits.flashcards_per_month, UsedFlashcards(u, now),
                            check_flashcard_limit(u, now))
            /\ shown.ai_generations =
                  GateEntry(limits.ai_generations_per_month, UsedAiGenerations(u, now),
                            check_ai_generation_limit(u, now))

\* What check_ai_generation_limit counts for u in the current month.
AiUsage(u) ==
    count_gte(summaries, u, start_of_month(now))
        + ai_flashcards_gte(u, start_of_month(now))

\* Cards of u, of any origin, in the current month.
CardsThisMonth(u) == flashcards_gte(u, start_of_month(now))

\* C23: only AI-originated flashcards consume the AI-generation quota.  A
\* manual flashcard creation leaves the user's AI-generation usage as it was,
\* whatever the request's body holds, and each of the two AI flashcard
\* operations raises it by the number of cards it created.
C23_OnlyAiCardsCount ==
    [][\A u \in Customers :
          /\ \A document \in CardDocuments :
                last'.op = "flashcard_create" /\ FlashcardCreate(u, document)
                   => AiUsage(u)' = AiUsage(u)
          /\ \A requested \in NumCards :
                /\ last'.op \in {"generate_flashcards", "summary_generate_flashcards"}
                /\ (GenerateFlashcards(u, requested)
                      \/ GenerateFlashcardsFromSummary(u, requested))
                => AiUsage(u)' - AiUsage(u) = CardsThisMonth(u)' - CardsThisMonth(u)
      ]_vars


\* The errors that name a limit.
LimitErrors ==
    {"file_size", "document_limit", "summary_limit", "flashcard_limit",
     "ai_generation_limit"}

\* The step made no record and answered with a denial.
DeniedNoRecord ==
    /\ documents' = documents
    /\ summaries' = summaries
    /\ flashcards' = flashcards
    /\ last'.res.code \in {403, 500}
    /\ last'.res.error \in LimitErrors

C29_CheckoutFailureWritesNothing ==
    [][\A u \in Customers :
          /\ last'.op = "create_checkout_session"
          /\ last'.res = 400
          /\ CreateCheckoutSession(u)
          => users' = users]_vars

\* C30: a webhook request that construct_event refuses is answered 400 and
\* changes no field of any user, whatever event type and subscription the
\* payload names.
C30_RejectedWebhookProcessesNothing ==
    [][\A type \in WebhookTypes, sub \in Subscriptions :
          /\ last'.op = "webhook"
          /\ last'.ev = Event(type, sub, None)
          /\ WebhookRejected(type, sub)
          => users' = users /\ last'.res = 400]_vars

\* A refused payload named the deletion of the subscription an entitled user
\* holds, and the user holds it still.
C30_Witness ==
    /\ last.op = "webhook"
    /\ last.res = 400
    /\ last.ev.type = "customer.subscription.deleted"
    /\ \E u \in Users :
          /\ users[u].stripe_subscription_id = Some(last.ev.subscription)
          /\ is_pro(users[u], now)

\* plan_type, subscription_status and stripe_subscription_id of a row.
BillingFields(row) ==
    <<row.plan_type, row.subscription_status, row.stripe_subscription_id>>

\* C27: a webhook event applied while a request of the same user is in
\* flight is not lost.  When the user's profile update or checkout-session
\* creation read the row before the webhook saved it and saved the row after,
\* plan_type, subscription_status and stripe_subscription_id end as the
\* webhook wrote them.
C27_WebhookNotLost ==
    LET w == reqs["webhook"]
        q == reqs["request"]
    IN  (/\ w.pc = "done" /\ w.wrote # None
         /\ q.pc = "done" /\ q.wrote # None
         /\ q.op \in {"user_profile", "create_checkout_session"}
         /\ q.user = w.user
         /\ q.read < w.saved /\ w.saved < q.saved)
        => BillingFields(users[q.user[1]]) = BillingFields(w.wrote[1])

\* The whole handler run on a row with no other request in between.
Serially(q, row) ==
    IF q.op = "admin_upgrade_user" THEN admin_upgrade_row(row, now)
    ELSE IF q.op = "admin_downgrade_user" THEN admin_downgrade_row(row)
    ELSE IF q.ev.type = "checkout.session.completed"
    THEN checkout_completed_row(row, q.ev.subscription, q.ev.period_end, now)
    ELSE IF row.stripe_subscription_id # Some(q.ev.subscription) THEN row
    ELSE IF q.ev.type = "customer.subscription.deleted"
    THEN subscription_deleted_row(row)
    ELSE payment_failed_row(row)

\* C28: no update is lost between a webhook and an admin action on the same
\* user.  When one webhook transition and one admin upgrade or downgrade each
\* read the row before the other saved it, the entitlement fields end as one
\* of the two serial orders of the two transitions leaves them.
C28_NoLostUpdate ==
    LET w == reqs["webhook"]
        a == reqs["request"]
    IN  (/\ w.pc = "done" /\ w.wrote # None
         /\ a.pc = "done" /\ a.wrote # None
         /\ a.op \in AdminOps
         /\ a.user = w.user
         /\ w.read < a.saved /\ a.read < w.saved)
        => EntitlementFields(users[a.user[1]]) \in
              {EntitlementFields(Serially(a, Serially(w, w.row[1]))),
               EntitlementFields(Serially(w, Serially(a, w.row[1])))}

----------------------------------------------------------------------------
(* C31..C40: counts, frames, bounds of the month and the reachable rows *)

\* The card count as claimed: the request's number brought into 1..50, and 10
\* for a request that gives none.
ClampedNumCards(requested) ==
    IF requested = None THEN 10
    ELSE IF requested[1] < 1 THEN 1
    ELSE IF requested[1] > 50 THEN 50
    ELSE requested[1]

\* C31: in both flashcard-generation operations the count handed to the
\* generator is the requested num_cards clamped into 1..50, 10 when absent,
\* and the operation creates at most that many cards.
C31_NumCardsClamped ==
    [][\A u \in Customers, requested \in NumCards :
          /\ last'.op \in {"generate_flashcards", "summary_generate_flashcards"}
          /\ last'.res = Created
          /\ (GenerateFlashcards(u, requested)
                \/ GenerateFlashcardsFromSummary(u, requested))
          => /\ num_cards_of(requested) = ClampedNumCards(requested)
             /\ CardsThisMonth(u)' - CardsThisMonth(u) <= ClampedNumCards(requested)
      ]_vars

\* One of the five checks is run for u.
SomeCheck(u) ==
    \/ last'.op = "check_document_limit" /\ EvalDocumentLimit(u)
    \/ last'.op = "check_summary_limit" /\ EvalSummaryLimit(u)
    \/ last'.op = "check_flashcard_limit" /\ EvalFlashcardLimit(u)
    \/ last'.op = "check_ai_generation_limit" /\ EvalAiGenerationLimit(u)
    \/ /\ last'.op = "check_file_size_limit"
       /\ \E size \in FileSizes : EvalFileSizeLimit(u, size)

\* The check before this one was the same check of the same user, in the same
\* month and with the user entitled then as now.
SameCheckAgain(u) ==
    /\ last.op = last'.op
    /\ last.user = Some(u)
    /\ last.ev = last'.ev
    /\ last.at \div MonthLen = now \div MonthLen
    /\ Entitled(users[u], last.at) = Entitled(users[u], now)

\* C32: a quota check reserves nothing.  Each check leaves every user row and
\* every document, summary and flashcard record as it was, and a check
\* repeated with no creation in between, in the same month and entitlement
\* period, returns what it returned before.
C32_ChecksReserveNothing ==
    [][\A u \in Users :
          (last'.user = Some(u) /\ last'.at = now /\ SomeCheck(u)) =>
             /\ users' = users
             /\ documents' = documents
             /\ summaries' = summaries
             /\ flashcards' = flashcards
             /\ SameCheckAgain(u) => last'.res = last.res
      ]_vars

\* A check found free document slots in the month; the clock has moved on
\* within the month and the slots are all still there.
C32_Witness ==
    /\ last.op = "check_document_limit"
    /\ last.user = Some(FirstUser)
    /\ last.res.allowed
    /\ last.res.remaining = Some(10 - UsedDocuments(FirstUser, now))
    /\ last.at < now
    /\ last.at \div MonthLen = now \div MonthLen
    /\ check_document_limit(FirstUser, now) = last.res

\* C33: summary generation is gated by two quotas.  It creates a summary only
\* when the AI-generation check and the summary check both allow; a denial or
\* a failed extraction or AI call creates none; and a success creates exactly
\* one summary of the requester, so that summary usage and AI-generation usage
\* each grow by one and nothing else changes.
C33_SummaryGatedTwice ==
    [][\A u \in Customers :
          (last'.op = "generate_summary" /\ GenerateSummary(u)) =>
             /\ summaries' # summaries =>
                   /\ Gate(Entitled(users[u], now), 20, UsedAiGenerations(u, now)).allowed
                   /\ Gate(Entitled(users[u], now), 10, UsedSummaries(u, now)).allowed
             /\ last'.res # Created => summaries' = summaries
             /\ last'.res = Created =>
                   /\ (UsedSummaries(u, now))' = UsedSummaries(u, now) + 1
                   /\ (UsedAiGenerations(u, now))' = UsedAiGenerations(u, now) + 1
                   /\ \A v \in Users \ {u} : summaries'[v] = summaries[v]
             /\ documents' = documents
             /\ flashcards' = flashcards
             /\ users' = users
      ]_vars

\* A user on the free limits was given the tenth summary of the month.
C33_Witness ==
    /\ last.op = "generate_summary"
    /\ last.user = Some(FirstUser)
    /\ last.res = Created
    /\ ~last.was_pro
    /\ last.at = now
    /\ UsedSummaries(FirstUser, now) = 10

\* C34: verify_payment upgrades only on a paid session of the caller.  When
\* the session's user_id is not the caller's id the request is refused, every
\* request not answered 200 (wrong owner, unpaid session, failed provider
\* call) leaves every user row as it was, and no request changes the row of a
\* user other than the caller.
C34_VerifyPaymentOwnPaidSession ==
    [][\A u \in Users, sub \in Subscriptions :
          (last'.op = "verify_payment" /\ last'.user = Some(u) /\ VerifyPayment(u, sub)) =>
             /\ MetadataUserId[sub] # str(u) => last'.res \in {400, 403}
             /\ last'.res # 200 => users' = users
             /\ \A v \in Users \ {u} : users'[v] = users[v]
      ]_vars

\* The other user presented a session that is not theirs and was refused,
\* while the session's owner holds the subscription.
C34_Witness ==
    /\ last.op = "verify_payment"
    /\ last.user # Some(FirstUser)
    /\ last.user # None
    /\ last.res = 403
    /\ ~is_pro(users[last.user[1]], now)
    /\ is_pro(users[FirstUser], now)

\* C35: in a sequential execution a user who is never entitled in the month
\* never has more than 50 flashcards created in that month, manual cards and
\* the cards of both AI operations counted: no step takes such a user from at
\* most 50 cards this month to more.
C35_SequentialFlashcardCap ==
    [][\A u \in Customers :
          (users[u] = NewUser /\ UsedFlashcards(u, now) <= 50)
             => (UsedFlashcards(u, now))' <= 50]_vars

\* Uploads of u answered 201 in the calendar month of t.
UploadsAnswered(u, t) == SumOver(reqs[u], MonthOf(t))

\* C36: the monthly document quota bounds uploads, not only stored records.
\* In a sequential execution that mixes uploads and deletions of the user's
\* own documents, a never-entitled user has at most 10 uploads answered 201
\* in one calendar month.
C36_UploadsBoundedUnderDeletion ==
    \A u \in Customers :
        users[u] = NewUser => UploadsAnswered(u, now) <= 10

\* The pairs (plan_type, subscription_status) the state machine names.
NamedPairs ==
    {<<"free", "active">>, <<"pro", "active">>, <<"pro", "cancelled">>,
     <<"free", "cancelled">>, <<"pro", "past_due">>}

\* C37: in every state reached through registration, checkout completion, the
\* three webhook events and the admin upgrade and downgrade, in any order and
\* with duplicates, each user's (plan_type, subscription_status) is one of
\* free/active, pro/active, pro/cancelled, free/cancelled, pro/past_due; a
\* free user is never past_due.
C37_NamedPairsOnly ==
    \A u \in Users :
        <<users[u].plan_type, users[u].subscription_status>> \in NamedPairs

\* C38: subscription_status is a closed enum.  In every reachable state,
\* after any sequence of operations that includes the admin user-detail PATCH
\* and the user's own profile update, each user's subscription_status is one
\* of active, cancelled, past_due, expired.
C38_StatusClosedEnum ==
    \A u \in Users :
        users[u].subscription_status \in {"active", "cancelled", "past_due", "expired"}

\* The subscription of session sub, once granted to u, has been ended, by the
\* subscription-deleted event or by an admin downgrade, and u is not entitled.
SubscriptionEnded(u, sub) ==
    /\ ~is_pro(users[u], now)
    /\ users[u].subscription_status = "cancelled"
    /\ users[u].subscription_start_date # None
    /\ \/ <<"customer.subscription.deleted", sub>> \in delivered
       \/ users[u].stripe_subscription_id = Some(sub)

\* C39: a paid checkout session grants entitlement at most once.  After the
\* user's subscription has been ended, a further verify_payment by that user
\* with the same, already used session does not make the user entitled.
C39_PaidSessionGrantsOnce ==
    [][\A u \in Customers, sub \in Subscriptions :
          /\ last'.op = "verify_payment"
          /\ last'.user = Some(u)
          /\ SubscriptionEnded(u, sub)
          /\ VerifyPayment(u, sub)
          => ~is_pro(users'[u], now)]_vars

\* C40: no privilege escalation through the profile endpoint.  No request of
\* a user who is no admin changes that user's is_staff or is_superuser, so
\* the admin upgrade and downgrade are never carried out for such a user.
C40_NoPrivilegeEscalation ==
    [][\A u \in Users :
          /\ users'[u].is_staff = users[u].is_staff
          /\ users'[u].is_superuser = users[u].is_superuser
          /\ last'.op \in AdminOps => last'.res = 403]_vars

====
